---------------------------- MODULE Spec2Model ----------------------------
(***************************************************************************)
(* PiSMS (smstoslack.py): a single run polls the configured GSM modems     *)
(* over their serial lines, forwards every stored SMS to the webhook       *)
(* configured for the modem's SIM number and deletes forwarded messages.   *)
(*                                                                         *)
(* Representation.  A Python `bytes` value is a sequence of integers       *)
(* 0..255; a Python `str` value is a sequence of one-character strings     *)
(* (the character U+00E9 is written "U+00E9").  The conversions between    *)
(* the two (encode, decode, decode("ISO-8859-1")) are computed through the *)
(* code table below.  Everything the device sends is drawn from the small  *)
(* input sets of section 4; everything the program does to the outside     *)
(* (serial open/write/flush/close, webhook POST, logged warning) is        *)
(* appended to `log`, the trace of the current unit of work.               *)
(***************************************************************************)
EXTENDS Integers, Sequences, FiniteSets, TLC

(***************************************************************************)
(* 1. Bounds                                                               *)
(***************************************************************************)
\* number of serial interfaces listed in config['modems']
NumModems == 2
\* largest number of stored messages a modem reports in one list response
MaxMsgs == 2
\* longest raw body given to the payload decoder alone
MaxBody == 4
\* longest string whose UCS2-hex encoding is given to the payload decoder
MaxText == 1

(***************************************************************************)
(* 2. Characters, bytes and the str methods the program uses               *)
(***************************************************************************)
\* the printable ASCII characters, code points 32..126 in order (the grave
\* accent, which a TLA+ string cannot hold, is written "U+0060")
Printable ==
  <<" ","!","\"","#","$","%","&","'","(",")","*","+",",","-",".","/",
    "0","1","2","3","4","5","6","7","8","9",":",";","<","=",">","?",
    "@","A","B","C","D","E","F","G","H","I","J","K","L","M","N","O",
    "P","Q","R","S","T","U","V","W","X","Y","Z","[","\\","]","^","_",
    "U+0060","a","b","c","d","e","f","g","h","i","j","k","l","m","n","o",
    "p","q","r","s","t","u","v","w","x","y","z","{","|","}","~">>

\* the code points that occur in the model
CharCodes == {10, 13} \cup (32..126) \cup {233}

\* Python chr() on CharCodes
chr(n) ==
  IF n = 10 THEN "\n"
  ELSE IF n = 13 THEN "\r"
  ELSE IF n = 233 THEN "U+00E9"
  ELSE Printable[n - 31]

OrdTable == [c \in {chr(n) : n \in CharCodes} |-> CHOOSE n \in CharCodes : chr(n) = c]

\* Python ord()
ord(c) == OrdTable[c]

RECURSIVE Flatten(_)
\* ''.join(parts)
Flatten(parts) ==
  IF parts = <<>> THEN <<>> ELSE Head(parts) \o Flatten(Tail(parts))

\* str.encode(): UTF-8, one byte below U+0080 and two bytes below U+0800
encode(s) ==
  IF \A i \in 1..Len(s) : ord(s[i]) < 128
  THEN [i \in 1..Len(s) |-> ord(s[i])]
  ELSE Flatten([i \in 1..Len(s) |->
                  IF ord(s[i]) < 128 THEN <<ord(s[i])>>
                  ELSE <<192 + (ord(s[i]) \div 64), 128 + (ord(s[i]) % 64)>>])

RECURSIVE utf8_ok(_)
\* whether bytes.decode() returns: every byte is ASCII or belongs to a
\* well-formed two-byte sequence (no input of the model holds a longer one);
\* otherwise bytes.decode() raises UnicodeDecodeError
utf8_ok(b) ==
  IF \A i \in 1..Len(b) : b[i] < 128 THEN TRUE
  ELSE IF b[1] < 128 THEN utf8_ok(Tail(b))
  ELSE IF b[1] \in 194..223 /\ Len(b) >= 2 /\ b[2] \in 128..191
       THEN utf8_ok(SubSeq(b, 3, Len(b)))
  ELSE FALSE

RECURSIVE decode(_)
\* bytes.decode() where utf8_ok
decode(b) ==
  IF \A i \in 1..Len(b) : b[i] < 128 THEN [i \in 1..Len(b) |-> chr(b[i])]
  ELSE IF b[1] < 128 THEN <<chr(b[1])>> \o decode(Tail(b))
  ELSE <<chr((b[1] - 192) * 64 + (b[2] - 128))>> \o decode(SubSeq(b, 3, Len(b)))

\* bytes.decode("ISO-8859-1"): byte n is the character U+00n, never raises
decode_latin1(b) == [i \in 1..Len(b) |-> chr(b[i])]

\* `sub in s` for str
contains(sub, s) ==
  \E i \in 1..(Len(s) - Len(sub) + 1) : SubSeq(s, i, i + Len(sub) - 1) = sub

\* str.split(sep) for a one-character separator: the pieces between the
\* separators, one more than there are separators
split(s, sep) ==
  LET at == { i \in 1..Len(s) : s[i] = sep }
      n == Cardinality(at)
      pos(k) == CHOOSE i \in at : Cardinality({ j \in at : j < i }) = k - 1
  IN  [k \in 1..(n + 1) |->
         SubSeq(s, IF k = 1 THEN 1 ELSE pos(k - 1) + 1,
                   IF k = n + 1 THEN Len(s) ELSE pos(k) - 1)]

RECURSIVE replace(_, _, _)
\* str.replace(old, new) for a non-empty old
replace(s, old, new) ==
  IF Len(s) < Len(old) THEN s
  ELSE IF SubSeq(s, 1, Len(old)) = old
       THEN new \o replace(SubSeq(s, Len(old) + 1, Len(s)), old, new)
  ELSE <<Head(s)>> \o replace(Tail(s), old, new)

(***************************************************************************)
(* 3. Payload decoder                                                      *)
(***************************************************************************)
HexDigits == <<"0","1","2","3","4","5","6","7","8","9","A","B","C","D","E","F">>
HexLower == <<"0","1","2","3","4","5","6","7","8","9","a","b","c","d","e","f">>

is_hex(c) == \E k \in 1..16 : c = HexDigits[k] \/ c = HexLower[k]

\* int(c, 16) of one hex digit
hex_value(c) == (CHOOSE k \in 1..16 : c = HexDigits[k] \/ c = HexLower[k]) - 1

\* the UTF-16BE code unit written by the four hex digits from position i
code_unit(pdu, i) ==
  hex_value(pdu[i]) * 4096 + hex_value(pdu[i+1]) * 256
    + hex_value(pdu[i+2]) * 16 + hex_value(pdu[i+3])

\* smspdu's UCS2.decode(pdu) raises unless pdu is hex digits in groups of
\* four, each a code unit that stands for a character (a surrogate half on
\* its own does not; no pdu of the model is long enough for a pair)
UCS2_decode_raises(pdu) ==
  \/ Len(pdu) % 4 # 0
  \/ \E i \in 1..Len(pdu) : ~is_hex(pdu[i])
  \/ \E k \in 1..(Len(pdu) \div 4) : code_unit(pdu, 4*k - 3) \in 55296..57343

\* smspdu's UCS2.decode(pdu) where it returns
UCS2_decode(pdu) == [k \in 1..(Len(pdu) \div 4) |-> chr(code_unit(pdu, 4*k - 3))]

\* the four upper-case hex digits of one code unit
hex4(n) ==
  <<HexDigits[(n \div 4096) + 1], HexDigits[((n \div 256) % 16) + 1],
    HexDigits[((n \div 16) % 16) + 1], HexDigits[(n % 16) + 1]>>

\* the UCS2-hex encoding of a string of the basic plane: the hex digit pairs
\* of its UTF-16BE code units
UCS2_encode(s) == Flatten([i \in 1..Len(s) |-> hex4(ord(s[i]))])

\* str(ord(c) for c in msg.decode("ISO-8859-1")): the argument is a generator
\* expression, never iterated, and str() of it is its repr; only the address
\* differs from run to run
str_of_generator ==
  <<"<","g","e","n","e","r","a","t","o","r"," ","o","b","j","e","c","t"," ",
    "d","e","c","o","d","e","_","m","s","g",".","<","l","o","c","a","l","s",">",
    ".","<","g","e","n","e","x","p","r",">"," ","a","t"," ",
    "0","x","7","f","3","a","5","c","1","d","2","e","4","0",">">>

\* decode_msg with the fallback msg.decode("ascii", "ignore"), which drops
\* the bytes above 0x7F
decode_msg_ascii(msg) ==
  [exc |-> "none",
   value |-> decode_latin1(Flatten([i \in 1..Len(msg) |->
                                      IF msg[i] < 128 THEN <<msg[i]>> ELSE <<>>]))]

\* decode_msg(msg): [exc, value]
decode_msg(msg) ==
  IF UCS2_decode_raises(str_of_generator)
  THEN [exc |-> "none", value |-> decode_latin1(msg)]
  ELSE [exc |-> "none", value |-> UCS2_decode(str_of_generator)]

(***************************************************************************)
(* 4. Configuration and what the devices answer                            *)
(***************************************************************************)
\* config['modems']: interface i stands for /dev/ttyUSB<i-1>
config_modems == [i \in 1..NumModems |-> i]

Num1 == <<"+","4","9","1","5","1","1","2","3","4","5","6","7">>
Num2 == <<"+","4","9","1","5","1","9","8","7","6","5","4","3">>
\* a SIM number that config['numbers'] does not list
NumX == <<"+","4","9","1","5","1","0","0","0","0","0","0","0">>

\* config['numbers']: nothing in the program keeps the numbers of the list
\* apart, so one number is listed once and one twice
config_numbers ==
  << [number |-> Num1, webhook |-> "https://hooks.example/abc"],
     [number |-> Num2, webhook |-> "https://hooks.example/def"],
     [number |-> Num2, webhook |-> "https://hooks.example/xyz"] >>

\* the number of the SIM in the modem on interface i
SimNumber(i) == IF i % 2 = 1 THEN Num1 ELSE Num2

\* lines as the device sends them
L_echoAT == encode(<<"A","T","\r","\r","\n">>)
L_OK == encode(<<"O","K","\r","\n">>)
L_ERROR == encode(<<"E","R","R","O","R","\r","\n">>)
L_blank == encode(<<"\r","\n">>)
L_echoCMGF == encode(<<"+","C","M","G","F","=","1","\r","\r","\n">>)
L_echoCNUM == encode(<<"A","T","+","C","N","U","M","\r","\r","\n">>)
L_echoCMGL ==
  encode(<<"A","T","+","C","M","G","L","=","\"","A","L","L","\"","\r","\r","\n">>)

\* +CNUM: "Me","<number>",145,7,4
L_cnum(number) ==
  encode(<<"+","C","N","U","M",":"," ","\"","M","e","\"",",","\"">> \o number
           \o <<"\"",",","1","4","5",",","7",",","4","\r","\n">>)

\* What serial.Serial() and the read after the AT check give: the port does
\* not open; or the lines read are none, the echo alone, echo and OK, echo
\* and ERROR, or OK only as the third line.
ATInputs ==
  { [port |-> FALSE, lines |-> <<>>] } \cup
  { [port |-> TRUE, lines |-> l] :
      l \in { <<>>, <<L_echoAT>>, <<L_echoAT, L_OK>>, <<L_echoAT, L_ERROR>>,
              <<L_echoAT, L_blank, L_OK>> } }

\* What the exchange after AT+CNUM gives on interface i: the read fails; the
\* answer the code expects, with the SIM's number or an unlisted one; a batch
\* of three lines; a batch whose fourth line has no second field.
CnumInputs(i) ==
  { [io |-> FALSE, lines |-> <<>>] } \cup
  { [io |-> TRUE, lines |-> l] :
      l \in { <<L_echoCMGF, L_OK, L_echoCNUM, L_cnum(SimNumber(i)), L_blank, L_OK>>,
              <<L_echoCMGF, L_OK, L_echoCNUM, L_cnum(NumX), L_blank, L_OK>>,
              <<L_echoCNUM, L_blank, L_OK>>,
              <<L_echoCMGF, L_OK, L_echoCNUM, L_ERROR>> } }

Sender == <<"+","4","9","1","7","2","X","X","X","X","X","X","X">>

\* the slot index of the k-th stored message, as the device prints it
SlotText(k) == <<chr(48 + k)>>

\* the raw body line of the message in slot k: plain text, text with a
\* Latin-1 byte, UCS2-hex text ("Hi")
MakeBodyLine(k) ==
  IF k % 3 = 1 THEN encode(<<"H","e","l","l","o","\r","\n">>)
  ELSE IF k % 3 = 2 THEN <<99, 97, 102, 233, 13, 10>>
  ELSE encode(<<"0","0","4","8","0","0","6","9","\r","\n">>)

\* the header line of the message in slot k; shape "full" is
\* +CMGL: k,"REC UNREAD","<sender>","","21/03/05,14:20:52+04"
\* and shape "short" stops after the status field
MakeHeaderLine(k, shape) ==
  encode(<<"+","C","M","G","L",":"," ">> \o SlotText(k)
           \o <<",","\"","R","E","C"," ","U","N","R","E","A","D","\"">>
           \o (IF shape = "full"
               THEN <<",","\"">> \o Sender
                      \o <<"\"",",","\"","\"",",","\"","2","1","/","0","3","/","0","5",
                           ",","1","4",":","2","0",":","5","2","+","0","4","\"">>
               ELSE <<>>)
           \o <<"\r","\n">>)

LineTable ==
  [k \in 1..MaxMsgs |->
     [full |-> MakeHeaderLine(k, "full"), short |-> MakeHeaderLine(k, "short"),
      body |-> MakeBodyLine(k)]]

\* the lines of the message in slot k, looked up
HeaderLine(k, shape) == IF shape = "full" THEN LineTable[k].full ELSE LineTable[k].short
BodyLine(k) == LineTable[k].body

\* what a SIM may hold: n <= MaxMsgs messages in slots 1..n, each header of
\* either shape
SimContents ==
  UNION { [1..n -> {"full", "short"}] : n \in 0..MaxMsgs }

\* the device's answer to AT+CMGL="ALL" for a SIM content: the echo, a group
\* [header, body, blank] per message, OK
ListResponse(sim) ==
  <<L_echoCMGL>>
    \o Flatten([k \in 1..Len(sim) |-> <<HeaderLine(k, sim[k]), BodyLine(k), L_blank>>])
    \o <<L_OK>>

\* batches of fewer than five lines other than the empty SIM's [echo, OK]
ShortBatches ==
  { <<>>, <<L_echoCMGL>>, <<L_echoCMGL, L_blank, L_OK>>,
    <<L_echoCMGL, HeaderLine(1, "full"), L_blank, L_OK>> }

\* What the exchange after AT+CMGL="ALL" gives: the read fails; the answer
\* for a SIM content; a short batch.
ListInputs ==
  { [io |-> FALSE, full |-> FALSE, sim |-> <<>>, lines |-> <<>>] } \cup
  { [io |-> TRUE, full |-> TRUE, sim |-> sim, lines |-> ListResponse(sim)] :
      sim \in SimContents } \cup
  { [io |-> TRUE, full |-> FALSE, sim |-> <<>>, lines |-> l] : l \in ShortBatches }

\* What requests.post does: returns a 2xx response, returns a response with
\* an error status (it does not raise for one), or raises (transport error).
PostResults == {"ok", "http_error", "exception"}

(***************************************************************************)
(* 5. The Modem methods                                                    *)
(*                                                                         *)
(* A method is an operator from its arguments and what the device answers  *)
(* to: exc (the exception that leaves it, "none" when it returns), value   *)
(* (what it returns), ev (what it did, in order) and ser (the state it     *)
(* leaves self.ser in: "open", "closed", or "unchanged" when serial.Serial *)
(* raised before self.ser was assigned).                                   *)
(***************************************************************************)
\* one entry of the trace: ev is "open", "write", "flush", "close", "post" or
\* "warn"; rec is the position in msg_list of the record it was done for
Event(ev, interface) ==
  [ev |-> ev, iface |-> interface, rec |-> 0, bytes |-> <<>>,
   url |-> "", text |-> <<>>, result |-> ""]

\* send_command(command)
send_command(interface, command) ==
  [Event("write", interface) EXCEPT !.bytes = command]

\* flush_output()
flush_output(interface) == Event("flush", interface)

\* close()
close(interface) == Event("close", interface)

cmd_AT == encode(<<"A","T","\r">>)
cmd_CMGF == encode(<<"A","T","+","C","M","G","F","=","1","\r">>)
cmd_CNUM == encode(<<"A","T","+","C","N","U","M","\r">>)
cmd_CMGL == encode(<<"A","T","+","C","M","G","L","=","\"","A","L","L","\"","\r","\n">>)
\* 'AT+CMGD={}\r'.format(sms_index).encode()
cmd_CMGD(sms_index) ==
  encode(<<"A","T","+","C","M","G","D","=">> \o sms_index \o <<"\r">>)

\* open() without the test of the answer: AT+CMGF=1 follows whatever was read
open_unchecked(interface, at) ==
  IF ~at.port
  THEN [exc |-> "SerialException", ev |-> <<>>, ser |-> "unchanged"]
  ELSE [exc |-> "none",
        ev |-> <<Event("open", interface), send_command(interface, cmd_AT),
                 send_command(interface, cmd_CMGF), flush_output(interface)>>,
        ser |-> "open"]

\* open()
open(interface, at) ==
  IF ~at.port
  THEN [exc |-> "SerialException", ev |-> <<>>, ser |-> "unchanged"]
  ELSE LET ev0 == <<Event("open", interface), send_command(interface, cmd_AT)>>
       IN  IF Len(at.lines) < 2
           THEN [exc |-> "IndexError", ev |-> ev0, ser |-> "open"]
           ELSE IF ~utf8_ok(at.lines[2])
           THEN [exc |-> "UnicodeDecodeError", ev |-> ev0, ser |-> "open"]
           ELSE IF ~contains(<<"O","K">>, decode(at.lines[2]))
           THEN [exc |-> "Exception", ev |-> ev0 \o <<close(interface)>>,
                 ser |-> "closed"]
           ELSE [exc |-> "none",
                 ev |-> ev0 \o <<send_command(interface, cmd_CMGF),
                                 flush_output(interface)>>,
                 ser |-> "open"]

\* parse_number without the replace('"', '') of line 50
parse_number_quoted(data) ==
  IF Len(data) < 4 THEN [exc |-> "IndexError", value |-> <<>>]
  ELSE IF ~utf8_ok(data[4]) THEN [exc |-> "UnicodeDecodeError", value |-> <<>>]
  ELSE LET fields == split(decode(data[4]), ",")
       IN  IF Len(fields) < 2 THEN [exc |-> "IndexError", value |-> <<>>]
           ELSE [exc |-> "none", value |-> fields[2]]

\* number = data[3].decode().split(',')[1].replace('"', '')
parse_number(data) ==
  IF Len(data) < 4 THEN [exc |-> "IndexError", value |-> <<>>]
  ELSE IF ~utf8_ok(data[4]) THEN [exc |-> "UnicodeDecodeError", value |-> <<>>]
  ELSE LET fields == split(decode(data[4]), ",")
       IN  IF Len(fields) < 2 THEN [exc |-> "IndexError", value |-> <<>>]
           ELSE [exc |-> "none", value |-> replace(fields[2], <<"\"">>, <<>>)]

\* get_number()
get_number(interface, at, cnum) ==
  LET o == open(interface, at)
      ev1 == o.ev \o <<send_command(interface, cmd_CNUM)>>
  IN  IF o.exc # "none" THEN [exc |-> o.exc, value |-> <<>>, ev |-> o.ev, ser |-> o.ser]
      ELSE IF ~cnum.io
      THEN [exc |-> "SerialException", value |-> <<>>, ev |-> ev1, ser |-> "open"]
      ELSE LET p == parse_number(cnum.lines)
           IN  [exc |-> p.exc, value |-> p.value,
                ev |-> ev1 \o <<close(interface)>>, ser |-> "closed"]

\* get_webhook(): the webhook of the first entry with this number
get_webhook(number) ==
  IF \E k \in 1..Len(config_numbers) : config_numbers[k].number = number
  THEN [exc |-> "none",
        value |-> config_numbers[CHOOSE k \in 1..Len(config_numbers) :
                                   /\ config_numbers[k].number = number
                                   /\ \A j \in 1..(k-1) : config_numbers[j].number # number
                                ].webhook]
  ELSE [exc |-> "Exception", value |-> ""]

\* Modem(interface): __init__
Modem(interface, at, cnum) ==
  LET n == get_number(interface, at, cnum)
      w == get_webhook(n.value)
  IN  IF n.exc # "none" THEN [exc |-> n.exc, value |-> <<>>, ev |-> n.ev, ser |-> n.ser]
      ELSE [exc |-> w.exc,
            value |-> [interface |-> interface, number |-> n.value, webhook |-> w.value],
            ev |-> n.ev, ser |-> n.ser]

\* sms_groups cutting into runs of two (header, body) instead of three
sms_groups_pairs(data) ==
  IF Len(data) >= 5
  THEN LET d == SubSeq(data, 2, Len(data) - 2)
       IN  [k \in 1..((Len(d) + 1) \div 2) |->
              SubSeq(d, 2*k - 1, IF 2*k <= Len(d) THEN 2*k ELSE Len(d))]
  ELSE <<>>

\* sms_groups with the length test off by one: len(data) >= 4
sms_groups_from4(data) ==
  IF Len(data) >= 4
  THEN LET d == SubSeq(data, 2, Len(data) - 2)
       IN  [k \in 1..((Len(d) + 2) \div 3) |->
              SubSeq(d, 3*k - 2, IF 3*k <= Len(d) THEN 3*k ELSE Len(d))]
  ELSE <<>>

\* the value get_all_sms returns for the batch read: nothing for fewer than
\* five lines, else the batch without its first and its last two lines, cut
\* into runs of three
sms_groups(data) ==
  IF Len(data) >= 5
  THEN LET d == SubSeq(data, 2, Len(data) - 2)
       IN  [k \in 1..((Len(d) + 2) \div 3) |->
              SubSeq(d, 3*k - 2, IF 3*k <= Len(d) THEN 3*k ELSE Len(d))]
  ELSE <<>>

\* get_all_sms()
get_all_sms(interface, at, lst) ==
  LET o == open(interface, at)
      ev1 == o.ev \o <<flush_output(interface), send_command(interface, cmd_CMGL)>>
  IN  IF o.exc # "none" THEN [exc |-> o.exc, value |-> <<>>, ev |-> o.ev, ser |-> o.ser]
      ELSE IF ~lst.io
      THEN [exc |-> "SerialException", value |-> <<>>, ev |-> ev1, ser |-> "open"]
      ELSE [exc |-> "none", value |-> sms_groups(lst.lines),
            ev |-> ev1 \o <<close(interface)>>, ser |-> "closed"]

\* delete_sms writing its command whether or not open() returned
delete_sms_unchecked(interface, sms_index, at) ==
  LET o == open(interface, at)
  IN  IF o.ser = "unchanged" THEN [exc |-> o.exc, ev |-> o.ev, ser |-> o.ser]
      ELSE [exc |-> "none",
            ev |-> o.ev \o <<send_command(interface, cmd_CMGD(sms_index)),
                             close(interface)>>,
            ser |-> "closed"]

\* delete_sms(sms_index)
delete_sms(interface, sms_index, at) ==
  LET o == open(interface, at)
  IN  IF o.exc # "none" THEN [exc |-> o.exc, ev |-> o.ev, ser |-> o.ser]
      ELSE [exc |-> "none",
            ev |-> o.ev \o <<send_command(interface, cmd_CMGD(sms_index)),
                             close(interface)>>,
            ser |-> "closed"]

\* 'From {}: \n {}'.format(sender, message)
payload_text(sender, message) ==
  <<"F","r","o","m"," ">> \o sender \o <<":"," ","\n"," ">> \o message

\* send_to_slack(sender, message): requests.post's result is not looked at,
\* so only an exception of requests.post leaves the method
send_to_slack(modem, sender, message, post) ==
  [exc |-> IF post = "exception" THEN "RequestException" ELSE "none",
   ev |-> << [Event("post", modem.interface) EXCEPT
                !.url = modem.webhook, !.text = payload_text(sender, message),
                !.result = post] >>]

\* main, lines 218-224: info = msg[0].decode().split(','), sms_index and
\* sender_number
header_info(msg) ==
  IF ~utf8_ok(msg[1])
  THEN [exc |-> "UnicodeDecodeError", sms_index |-> <<>>, sender_number |-> <<>>]
  ELSE LET info == split(decode(msg[1]), ",")
       IN  IF Len(info) < 3
           THEN [exc |-> "IndexError", sms_index |-> <<>>, sender_number |-> <<>>]
           ELSE [exc |-> "none",
                 sms_index |-> replace(info[1], <<"+","C","M","G","L",":"," ">>, <<>>),
                 sender_number |-> info[3]]

\* main, lines 226-232, for a record whose header gave sms_index and
\* sender_number: decode, forward and, when send_to_slack returned, delete.
\* abort: an exception left the inner try and ends this modem's loop.
forward_and_delete(modem, sms_index, sender_number, body, post, at) ==
  LET sms_msg == decode_msg(body)
      s == send_to_slack(modem, sender_number, sms_msg.value, post)
      d == delete_sms(modem.interface, sms_index, at)
      warning == [Event("warn", modem.interface) EXCEPT !.result = "send Failed"]
  IN  IF sms_msg.exc # "none"
      THEN [abort |-> TRUE, ev |-> <<>>, ser |-> "unchanged"]
      ELSE IF s.exc # "none"
      THEN [abort |-> FALSE, ev |-> s.ev \o <<warning>>, ser |-> "unchanged"]
      ELSE [abort |-> FALSE,
            ev |-> s.ev \o d.ev \o (IF d.exc # "none" THEN <<warning>> ELSE <<>>),
            ser |-> d.ser]

\* The results of the methods for every input of section 4, computed once:
\* the run looks them up.
Interfaces == { config_modems[i] : i \in 1..Len(config_modems) }

open_of == [i \in Interfaces |-> [at \in ATInputs |-> open(i, at)]]

get_number_of ==
  [i \in Interfaces |-> [at \in ATInputs |-> [cnum \in CnumInputs(i) |->
     get_number(i, at, cnum)]]]

Modem_of ==
  [i \in Interfaces |-> [at \in ATInputs |-> [cnum \in CnumInputs(i) |->
     Modem(i, at, cnum)]]]

get_all_sms_of ==
  [i \in Interfaces |-> [at \in ATInputs |-> [lst \in ListInputs |->
     get_all_sms(i, at, lst)]]]

\* the Modem objects Modem(interface) can return: an interface with the
\* number and the webhook of an entry of config['numbers']
ModemObjects ==
  { [interface |-> i, number |-> config_numbers[e].number,
     webhook |-> config_numbers[e].webhook] :
      i \in Interfaces, e \in 1..Len(config_numbers) }

\* per batch read by get_all_sms, the header of its k-th record
header_info_of ==
  [lst \in ListInputs |-> [k \in 1..Len(sms_groups(lst.lines)) |->
     header_info(sms_groups(lst.lines)[k])]]

\* per batch read by get_all_sms, lines 226-232 for its k-th record (for a
\* record that reaches line 226 with a body line)
forward_and_delete_of ==
  [modem \in ModemObjects |-> [lst \in ListInputs |->
     [k \in 1..Len(sms_groups(lst.lines)) |->
        [post \in PostResults |-> [at \in ATInputs |->
           LET msg == sms_groups(lst.lines)[k]
               h == header_info(msg)
           IN  IF h.exc = "none" /\ Len(msg) >= 2
               THEN forward_and_delete(modem, h.sms_index, h.sender_number,
                                       msg[2], post, at)
               ELSE [abort |-> TRUE, ev |-> <<>>, ser |-> "unchanged"]]]]]]

(***************************************************************************)
(* 6. The run                                                              *)
(***************************************************************************)
VARIABLES
  pc,        \* where main is: "create", "poll", "msgs", "done"
  ifIdx,     \* position in config['modems'] of the next interface
  modems,    \* main's list of Modem objects
  mIdx,      \* position in modems of the modem being polled
  msg_list,  \* what get_all_sms returned last
  msgIdx,    \* position in msg_list of the next record
  ser,       \* per interface, the state of self.ser of the Modem in modems
             \* ("none": no such Modem; one whose __init__ raised is dropped
             \* when main's except clause ends, its Serial object with it)
  log,       \* what the current unit of work (one Modem(), one modem's poll) did
  listed,    \* the batch the last list exchange read; full: it is the
             \* device's whole answer ListResponse(sim) for the SIM content sim
  noOK,      \* the interfaces whose identity check was answered without OK
  identity,  \* the identity exchange of the current Modem(): the batch read
             \* after AT+CNUM and what get_number made of it
  opened,    \* the last open() of the current step: the batch read after AT,
             \* the exception that left open() and the handle's state then
  calls,     \* per interface, how often Modem(interface) was constructed
             \* (ident) and how often get_all_sms() was called on it (list)
  d_pc, d_in, d_text, d_out, d_again  \* the payload decoder applied on its own

vars == <<pc, ifIdx, modems, mIdx, msg_list, msgIdx, ser, log, listed, noOK,
          identity, opened, calls,
          d_pc, d_in, d_text, d_out, d_again>>

runVars == <<pc, ifIdx, modems, mIdx, msg_list, msgIdx, ser, log, listed, noOK,
            identity, opened, calls>>
decoderVars == <<d_pc, d_in, d_text, d_out, d_again>>

NoBatch == [read |-> FALSE, full |-> FALSE, sim |-> <<>>, lines |-> <<>>]

NoOpen == [tried |-> FALSE, lines |-> <<>>, exc |-> "none", ser |-> "unchanged"]

\* what open() read and did for the answer at
OpenOf(interface, at) ==
  IF at.port
  THEN [tried |-> TRUE, lines |-> at.lines, exc |-> open_of[interface][at].exc,
        ser |-> open_of[interface][at].ser]
  ELSE NoOpen

NoIdentity == [asked |-> FALSE, iface |-> 0, lines |-> <<>>, exc |-> "none", value |-> <<>>]

InitRun ==
  /\ pc = "create"
  /\ ifIdx = 1
  /\ modems = <<>>
  /\ mIdx = 1
  /\ msg_list = <<>>
  /\ msgIdx = 1
  /\ ser = [i \in 1..NumModems |-> "none"]
  /\ log = <<>>
  /\ listed = NoBatch
  /\ noOK = {}
  /\ identity = NoIdentity
  /\ opened = NoOpen
  /\ calls = [ident |-> [i \in 1..NumModems |-> 0], list |-> [i \in 1..NumModems |-> 0]]

InitDecoder ==
  /\ d_pc = "off"
  /\ d_in = <<>>
  /\ d_text = <<>>
  /\ d_out = [exc |-> "none", value |-> <<>>]
  /\ d_again = [exc |-> "none", value |-> <<>>]

Init == InitRun /\ InitDecoder

\* the handle after a method that left it in state s
SerAfter(interface, s) ==
  IF s = "unchanged" THEN ser ELSE [ser EXCEPT ![interface] = s]

\* whether some line of the answer holds OK
answer_has_OK(lines) ==
  \E k \in 1..Len(lines) : contains(<<"O","K">>, decode_latin1(lines[k]))

\* The answers to draw for the exchange that follows open(): the exchange
\* happens only when open() returned, so one answer stands for all otherwise.
ExchangeInputs(interface, at, answers) ==
  IF open_of[interface][at].exc = "none" THEN answers
  ELSE {CHOOSE a \in answers : ~a.io}

\* main, lines 201-205: one turn of `for interface in config['modems']`
CreateModem ==
  /\ pc = "create"
  /\ \E at \in ATInputs :
     \E cnum \in ExchangeInputs(config_modems[ifIdx], at,
                                CnumInputs(config_modems[ifIdx])) :
       LET interface == config_modems[ifIdx]
           m == Modem_of[interface][at][cnum]
           n == get_number_of[interface][at][cnum]
           now == IF m.exc = "none" THEN Append(modems, m.value) ELSE modems
       IN  /\ modems' = now
           /\ log' = m.ev \o (IF m.exc = "none" THEN <<>>
                              ELSE <<[Event("warn", interface) EXCEPT
                                        !.result = "cannot create modem"]>>)
           /\ ser' = IF m.exc = "none" THEN SerAfter(interface, m.ser) ELSE ser
           /\ noOK' = IF at.port /\ ~answer_has_OK(at.lines)
                      THEN noOK \cup {interface} ELSE noOK
           /\ identity' = IF open_of[interface][at].exc = "none" /\ cnum.io
                          THEN [asked |-> TRUE, iface |-> interface,
                                lines |-> cnum.lines, exc |-> n.exc, value |-> n.value]
                          ELSE NoIdentity
           /\ opened' = OpenOf(interface, at)
           /\ calls' = [calls EXCEPT !.ident[interface] = @ + 1]
           /\ ifIdx' = ifIdx + 1
           /\ pc' = IF ifIdx < Len(config_modems) THEN "create"
                    ELSE IF now = <<>> THEN "done" ELSE "poll"
  /\ UNCHANGED <<mIdx, msg_list, msgIdx, listed>>
  /\ UNCHANGED decoderVars

\* the loop over modems left at the first exception, the run ending there
StopAtModem ==
  /\ mIdx' = mIdx
  /\ pc' = "done"

\* `for modem in modems` moves on to the next modem, or the run ends
NextModem ==
  /\ mIdx' = mIdx + 1
  /\ pc' = IF mIdx < Len(modems) THEN "poll" ELSE "done"

\* main, lines 208-210 and 234-235: get_all_sms() of the next modem
PollModem ==
  /\ pc = "poll"
  /\ \E at \in ATInputs :
     \E lst \in ExchangeInputs(modems[mIdx].interface, at, ListInputs) :
       LET modem == modems[mIdx]
           g == get_all_sms_of[modem.interface][at][lst]
       IN  /\ ser' = SerAfter(modem.interface, g.ser)
           /\ opened' = OpenOf(modem.interface, at)
           /\ IF g.exc = "none"
              THEN /\ msg_list' = g.value
                   /\ listed' = [read |-> TRUE, full |-> lst.full, sim |-> lst.sim,
                                 lines |-> lst.lines]
                   /\ log' = g.ev
                   /\ msgIdx' = 1
                   /\ IF g.value = <<>>
                      THEN NextModem
                      ELSE pc' = "msgs" /\ mIdx' = mIdx
              ELSE /\ log' = g.ev \o <<[Event("warn", modem.interface) EXCEPT
                                          !.result = "fetching msg failed"]>>
                   /\ listed' = NoBatch
                   /\ NextModem
                   /\ UNCHANGED <<msg_list, msgIdx>>
  /\ identity' = NoIdentity
  /\ calls' = [calls EXCEPT !.list[modems[mIdx].interface] = @ + 1]
  /\ UNCHANGED <<ifIdx, modems, noOK>>
  /\ UNCHANGED decoderVars

\* the events of one record, marked with the record's position
ForRecord(evs, j) == [k \in 1..Len(evs) |-> [evs[k] EXCEPT !.rec = j]]

\* main, lines 212-235: one turn of `for msg in msg_list`.  A header that
\* cannot be parsed (line 218 or 224) or a missing body line (line 226)
\* raises outside the inner try: the except of line 234 ends the loop.
ProcessMsg ==
  /\ pc = "msgs"
  /\ LET modem == modems[mIdx]
         msg == msg_list[msgIdx]
         lst == [io |-> TRUE, full |-> listed.full, sim |-> listed.sim,
                 lines |-> listed.lines]
         h == header_info_of[lst][msgIdx]
     IN  IF h.exc # "none" \/ Len(msg) < 2
         THEN /\ log' = log \o <<[Event("warn", modem.interface) EXCEPT
                                    !.rec = msgIdx, !.result = "fetching msg failed"]>>
              /\ NextModem
              /\ opened' = NoOpen
              /\ UNCHANGED <<msgIdx, ser>>
         ELSE \E post \in PostResults :
              \E at \in (IF post = "exception" THEN {CHOOSE a \in ATInputs : ~a.port}
                         ELSE ATInputs) :
                LET b == forward_and_delete_of[modem][lst][msgIdx][post][at]
                IN  /\ ser' = SerAfter(modem.interface, b.ser)
                    /\ opened' = IF post = "exception" THEN NoOpen
                                 ELSE OpenOf(modem.interface, at)
                    /\ IF b.abort
                       THEN /\ log' = log \o <<[Event("warn", modem.interface) EXCEPT
                                                  !.rec = msgIdx,
                                                  !.result = "fetching msg failed"]>>
                            /\ NextModem
                            /\ msgIdx' = msgIdx
                       ELSE /\ log' = log \o ForRecord(b.ev, msgIdx)
                            /\ msgIdx' = msgIdx + 1
                            /\ IF msgIdx < Len(msg_list)
                               THEN pc' = "msgs" /\ mIdx' = mIdx
                               ELSE NextModem
  /\ UNCHANGED <<ifIdx, modems, msg_list, listed, noOK, identity, calls>>
  /\ UNCHANGED decoderVars

Next == CreateModem \/ PollModem \/ ProcessMsg

Spec == Init /\ [][Next]_vars

\* main is a sequential program: serial reads return within the timeout of
\* line 24 and requests.post returns or raises, so the next statement is
\* always executed
FairSpec == Spec /\ WF_vars(Next)

(***************************************************************************)
(* 7. The payload decoder on its own                                       *)
(***************************************************************************)
\* the bytes raw bodies are made of: the digits 0, 4, 8, the letters D and
\* G, and the Latin-1 byte 0xE9
BodyBytes == {48, 52, 56, 68, 71, 233}

\* the raw bodies of up to MaxBody bytes
RawBodies == UNION { [1..n -> BodyBytes] : n \in 0..MaxBody }

\* the characters the encoded texts are made of
TextChars == {"A", "H", "U+00E9"}

\* the texts of up to MaxText characters
Texts == UNION { [1..n -> TextChars] : n \in 0..MaxText }

\* str.encode("ISO-8859-1") of a string below U+0100
encode_latin1(s) == [i \in 1..Len(s) |-> ord(s[i])]

\* The decoder starts on a raw body, or on the UCS2-hex encoding of a text
\* (d_text is then <<the text>>, else empty).
InitDecode ==
  /\ InitRun
  /\ d_pc = "ready"
  /\ \/ d_in \in RawBodies /\ d_text = <<>>
     \/ \E t \in Texts : d_in = encode_latin1(UCS2_encode(t)) /\ d_text = <<t>>
  /\ d_out = [exc |-> "none", value |-> <<>>]
  /\ d_again = [exc |-> "none", value |-> <<>>]

\* sms_msg = decode_msg(body)
DecodeBody ==
  /\ d_pc = "ready"
  /\ d_out' = decode_msg(d_in)
  /\ d_pc' = "decoded"
  /\ UNCHANGED <<d_in, d_text, d_again>>
  /\ UNCHANGED runVars

\* decode_msg applied to its own result, taken as a body again
DecodeAgain ==
  /\ d_pc = "decoded"
  /\ d_out.exc = "none"
  /\ d_again' = decode_msg(encode_latin1(d_out.value))
  /\ d_pc' = "again"
  /\ UNCHANGED <<d_in, d_text, d_out>>
  /\ UNCHANGED runVars

NextDecode == DecodeBody \/ DecodeAgain

SpecDecode == InitDecode /\ [][NextDecode]_vars

(***************************************************************************)
(* 8. Properties                                                           *)
(***************************************************************************)
\* the positions of the trace
Steps == 1..Len(log)

\* the webhook calls made for record j of the current poll
PostsOf(j) == { k \in Steps : log[k].ev = "post" /\ log[k].rec = j }

\* the AT+CMGD commands written for record j of the current poll
DeletesOf(j) ==
  { k \in Steps : /\ log[k].ev = "write" /\ log[k].rec = j
                  /\ Len(log[k].bytes) >= 8
                  /\ SubSeq(log[k].bytes, 1, 8) = SubSeq(cmd_CMGD(<<>>), 1, 8) }

\* the warnings logged for record j of the current poll
WarningsOf(j) == { k \in Steps : log[k].ev = "warn" /\ log[k].rec = j }

\* the records the current poll's webhook calls and deletes belong to
Records == 1..Len(msg_list)

\* the last list exchange read the device's full answer for a SIM content
ListedSim == listed.read /\ listed.full

\* C1: an AT+CMGD for a record is written only after a webhook call for that
\* record succeeded in the same poll, and a record whose webhook call failed
\* (requests.post raised, or the endpoint answered with an error status) gets
\* no AT+CMGD.
C1_DeleteOnlyAfterDelivery ==
  \A j \in Records :
    /\ \A k \in DeletesOf(j) :
         \E p \in PostsOf(j) : p < k /\ log[p].result = "ok"
    /\ (\E p \in PostsOf(j) : log[p].result # "ok") => DeletesOf(j) = {}

\* C2: in a poll of several records, all well formed, once the loop is over
\* every record was forwarded; a record whose delivery failed has no delete
\* and a warning; every record that was delivered has the delete with its own
\* slot index, or the warning of its failed delete.
C2_OnlyThatRecord ==
  (/\ pc # "msgs" /\ ListedSim /\ Len(listed.sim) >= 2
   /\ \A j \in DOMAIN listed.sim : listed.sim[j] = "full")
    => \A j \in Records :
         /\ PostsOf(j) # {}
         /\ \A p \in PostsOf(j) :
              IF log[p].result # "ok"
              THEN DeletesOf(j) = {} /\ WarningsOf(j) # {}
              ELSE \/ \E k \in DeletesOf(j) : log[k].bytes = cmd_CMGD(SlotText(j))
                   \/ WarningsOf(j) # {}

\* the text scenario A expects for the message in slot j, whose body is the
\* plain text Hello: "From <sender>: \n Hello"
ExpectedText(j) ==
  <<"F","r","o","m"," ">> \o Sender \o <<":"," ","\n"," ">> \o <<"H","e","l","l","o">>

\* C3: for a record with a full header and a plain-text body, the text sent
\* to the webhook is "From <sender>: \n <text>" with the sender without its
\* quotes and the text without its line terminator, and the delete that
\* follows is AT+CMGD=<the record's index>.
C3_PayloadText ==
  ListedSim =>
    \A j \in DOMAIN listed.sim :
      (listed.sim[j] = "full" /\ j % 3 = 1) =>
        /\ \A p \in PostsOf(j) : log[p].text = ExpectedText(j)
        /\ \A k \in DeletesOf(j) : log[k].bytes = cmd_CMGD(SlotText(j))

\* every session the trace opens is closed before the next one is opened and
\* before the trace ends
SessionsClosed ==
  \A k \in Steps :
    log[k].ev = "open" =>
      \E c \in Steps :
        /\ c > k /\ log[c].ev = "close" /\ log[c].iface = log[k].iface
        /\ \A o \in (k+1)..(c-1) : log[o].ev # "open"

\* C4: after identify(), listMessages() and deleteMessage() return or fail,
\* the serial session is closed again.
C4_SessionClosedAgain ==
  /\ \A i \in DOMAIN ser : ser[i] # "open"
  /\ SessionsClosed

\* C5: a record that does not have the expected shape fails alone: it is
\* logged, and the remaining records of the poll are still forwarded.
C5_MalformedRecordAlone ==
  (pc # "msgs" /\ ListedSim) =>
    \A j \in DOMAIN listed.sim :
      IF listed.sim[j] = "full" THEN PostsOf(j) # {} ELSE WarningsOf(j) # {}

\* the interfaces main holds a Modem for
Active == { modems[k].interface : k \in 1..Len(modems) }

\* C6: a modem whose identity check is answered without OK is not in the
\* active set; nothing but the AT check is ever written to it and no webhook
\* call is made for it; its Modem() is logged as a warning; and the run still
\* identifies every configured interface and polls every active modem.
C6_NoOKExcluded ==
  /\ \A i \in noOK :
       /\ i \notin Active
       /\ \A k \in Steps :
            log[k].iface = i =>
              /\ log[k].ev # "post"
              /\ log[k].ev = "write" => log[k].bytes = cmd_AT
       /\ (\E k \in Steps : log[k].iface = i) =>
            \E k \in Steps : /\ log[k].ev = "warn" /\ log[k].iface = i
                             /\ log[k].result = "cannot create modem"
  /\ \A k \in Steps : log[k].ev = "post" => log[k].iface \in Active
  /\ pc # "create" => ifIdx = Len(config_modems) + 1
  /\ pc = "done" => (modems = <<>> \/ mIdx = Len(modems) + 1)

\* a modem answered the identity check with ERROR, and another one was
\* created, polled and had a message delivered and deleted
C6_Witness ==
  /\ pc = "done"
  /\ noOK # {}
  /\ Active # {}
  /\ \E j \in Records : PostsOf(j) # {} /\ DeletesOf(j) # {}

\* the sender field of a full header, as the device prints it
QuotedSender == <<"\"">> \o Sender \o <<"\"">>

\* C7: for the answer echo, N >= 1 groups [header, body, blank], OK, the
\* list has N records in the answer's order; each has the body line that
\* follows its header, and a full header gives the slot index (its leading
\* token without "+CMGL: ") and the sender (its third field).
C7_ListRecords ==
  (ListedSim /\ Len(listed.sim) >= 1) =>
    /\ Len(msg_list) = Len(listed.sim)
    /\ \A j \in DOMAIN listed.sim :
         /\ msg_list[j][1] = HeaderLine(j, listed.sim[j])
         /\ Len(msg_list[j]) >= 2 /\ msg_list[j][2] = BodyLine(j)
         /\ listed.sim[j] = "full" =>
              header_info(msg_list[j]) =
                [exc |-> "none", sms_index |-> SlotText(j),
                 sender_number |-> QuotedSender]

\* a SIM with MaxMsgs messages, all with full headers, was listed
C7_Witness ==
  /\ ListedSim
  /\ Len(listed.sim) = MaxMsgs
  /\ \A j \in DOMAIN listed.sim : listed.sim[j] = "full"
  /\ Len(msg_list) = MaxMsgs

\* C8: a batch of fewer than five lines gives the empty list without a
\* failure, and then no webhook call and no delete for that modem.
C8_ShortBatchEmpty ==
  (listed.read /\ Len(listed.lines) < 5) =>
    /\ msg_list = <<>>
    /\ \A k \in Steps : log[k].ev \notin {"post", "warn"}
    /\ \A k \in Steps : log[k].ev = "write" => log[k].bytes \in {cmd_AT, cmd_CMGF, cmd_CMGL}

\* a batch of four lines, one of them a header, was read
C8_Witness ==
  /\ listed.read
  /\ Len(listed.lines) = 4
  /\ \E k \in Steps : log[k].ev = "write" /\ log[k].bytes = cmd_CMGL

\* C9: the decoder applied to the UCS2-hex encoding of a string returns the
\* string.
C9_RoundTrip ==
  (d_pc # "ready" /\ d_text # <<>>) => d_out.exc = "none" /\ d_out.value = d_text[1]

\* C10: for a raw body that is not valid UCS2-hex the decoder returns the
\* Latin-1 interpretation of the body, does not raise, and gives the same
\* result when it is applied again.
C10_FallbackLatin1 ==
  (d_pc # "ready" /\ UCS2_decode_raises([i \in 1..Len(d_in) |-> chr(d_in[i])])) =>
    /\ d_out.exc = "none"
    /\ d_out.value = [i \in 1..Len(d_in) |-> chr(d_in[i])]
    /\ d_pc = "again" => d_again = d_out

\* the body D8<0xE9>0, neither hex nor a code unit, was decoded twice
C10_Witness ==
  /\ d_pc = "again"
  /\ d_in = <<68, 56, 233, 48>>
  /\ d_text = <<>>

\* the SIM numbers the identity answers of CnumInputs carry
SimNumbers == {Num1, Num2, NumX}

\* the 4th line of the batch is +CNUM: "<alpha>","<n>",<type>...
FourthLineHas(lines, n) == Len(lines) >= 4 /\ lines[4] = L_cnum(n)

\* the batch has no 4th line, or its 4th line has no comma (byte 44)
NoSecondField(lines) ==
  \/ Len(lines) < 4
  \/ \A k \in 1..Len(lines[4]) : lines[4][k] # 44

AllAttempted ==
  /\ \A i \in 1..Len(config_modems) : calls.ident[config_modems[i]] >= 1
  /\ \A i \in Active : calls.list[i] >= 1

\* C12: whatever fails (identification, webhook lookup, listing, decoding,
\* delivery, delete), the run reaches its end, and by then every configured
\* interface was identified and every modem of the active set was listed.
C12_RunReachesEnd == <>(pc = "done" /\ AllAttempted)

\* the run ended after an identification failed and the last active modem's
\* poll was logged as failed
C12_Witness ==
  /\ pc = "done"
  /\ AllAttempted
  /\ Active # {}
  /\ Len(modems) < Len(config_modems)
  /\ \E k \in Steps : log[k].ev = "warn" /\ log[k].result = "fetching msg failed"

\* C13: a serial session is opened only when no session opened earlier, on
\* the same or on another modem, is still open.
C13_OneSessionAtATime ==
  \A k \in Steps :
    log[k].ev = "open" =>
      /\ \A i \in DOMAIN ser : i # log[k].iface => ser[i] # "open"
      /\ \A o \in 1..(k-1) :
           log[o].ev = "open" =>
             \E c \in (o+1)..(k-1) : log[c].ev = "close" /\ log[c].iface = log[o].iface

\* the entries of config['numbers'] whose number is n
EntriesFor(n) == { e \in 1..Len(config_numbers) : config_numbers[e].number = n }

\* the interfaces whose identity exchange gave a number no entry has
Unlisted ==
  IF identity.asked /\ identity.exc = "none" /\ EntriesFor(identity.value) = {}
  THEN {identity.iface} ELSE {}

\* C14: every modem of the active set has a number that exactly one entry of
\* the configuration has; a modem whose number no entry has is not in the
\* active set and is never polled; every webhook call goes to the URL of the
\* entry with the modem's number.
C14_ExactlyOneEntry ==
  /\ \A k \in 1..Len(modems) : Cardinality(EntriesFor(modems[k].number)) = 1
  /\ \A i \in Unlisted : i \notin Active
  /\ \A i \in Interfaces \ Active : calls.list[i] = 0
  /\ \A k \in Steps :
       log[k].ev = "post" =>
         \E m \in 1..Len(modems) :
           /\ modems[m].interface = log[k].iface
           /\ \A e \in EntriesFor(modems[m].number) :
                log[k].url = config_numbers[e].webhook

\* C15: open() returns exactly when some line of the batch read after AT
\* holds OK, whichever line it is; in every other case it fails, and the
\* serial handle is closed by the time the failure reaches the caller.
C15_OpenIffOK ==
  opened.tried =>
    /\ opened.exc = "none" <=> answer_has_OK(opened.lines)
    /\ opened.exc # "none" => opened.ser = "closed"

\* the AT+CMGD commands written in the current poll
AllDeletes == UNION { DeletesOf(j) : j \in Records }

\* the webhook calls of the current poll that were answered with success
Delivered == { k \in Steps : log[k].ev = "post" /\ log[k].result = "ok" }

\* C16: nothing is done twice in a run: Modem(interface) is constructed at
\* most once per interface, get_all_sms() called at most once per modem, a
\* record is posted at most once and its AT+CMGD written at most once; so
\* there are never more AT+CMGD commands than successful deliveries.
C16_NoRetry ==
  /\ \A i \in Interfaces : calls.ident[i] <= 1 /\ calls.list[i] <= 1
  /\ \A j \in Records : Cardinality(PostsOf(j)) <= 1 /\ Cardinality(DeletesOf(j)) <= 1
  /\ Cardinality(AllDeletes) <= Cardinality(Delivered)

\* the trace positions of the session opened at position o: up to the next
\* open, or to the end of the trace
SessionOf(o) ==
  { k \in Steps : k >= o /\ \A n \in (o+1)..k : log[n].ev # "open" }

\* an operation command: AT+CNUM, AT+CMGL="ALL" or AT+CMGD=<index>
IsOperation(bytes) ==
  \/ bytes = cmd_CNUM
  \/ bytes = cmd_CMGL
  \/ Len(bytes) >= 8 /\ SubSeq(bytes, 1, 8) = SubSeq(cmd_CMGD(<<>>), 1, 8)

\* position k of the trace is a write of bytes
Wrote(k, bytes) == k \in Steps /\ log[k].ev = "write" /\ log[k].bytes = bytes

\* the position of the last open of the trace
LastOpen ==
  CHOOSE o \in Steps : log[o].ev = "open" /\ \A k \in Steps : log[k].ev = "open" => k <= o

\* C17: in every session the first thing written is AT, AT+CMGF=1 is written
\* only right after it, an operation command only after AT+CMGF=1 and at most
\* once, nothing after the close, and AT+CMGL="ALL" only after a flush;
\* AT+CMGF=1 and the operation command are written only when the answer to
\* AT held OK.
C17_CommandOrder ==
  /\ \A o \in Steps :
       log[o].ev = "open" =>
         LET S == SessionOf(o)
             W == { k \in S : log[k].ev = "write" }
         IN  /\ W # {} => Wrote(o + 1, cmd_AT)
             /\ \A k \in W :
                  /\ log[k].bytes = cmd_AT => k = o + 1
                  /\ log[k].bytes = cmd_CMGF => k = o + 2
                  /\ \/ log[k].bytes \in {cmd_AT, cmd_CMGF}
                     \/ /\ IsOperation(log[k].bytes)
                        /\ Wrote(o + 2, cmd_CMGF) /\ k > o + 2
                        /\ \A n \in W : IsOperation(log[n].bytes) => n = k
                  /\ log[k].bytes = cmd_CMGL =>
                       \E f \in S : o + 2 < f /\ f < k /\ log[f].ev = "flush"
             /\ \A c \in S : log[c].ev = "close" => \A k \in W : k < c
  /\ opened.tried =>
       \A k \in SessionOf(LastOpen) :
         (log[k].ev = "write" /\ log[k].bytes # cmd_AT) => answer_has_OK(opened.lines)

\* a poll listed the messages and deleted one, each in a session of its own;
\* the last open() read an answer with OK
C17_Witness ==
  /\ opened.tried /\ opened.exc = "none"
  /\ \E k \in Steps : Wrote(k, cmd_CMGL)
  /\ \E k \in Steps : Wrote(k, cmd_CMGD(SlotText(1))) /\ k \in SessionOf(LastOpen)
  /\ \E c \in SessionOf(LastOpen) : log[c].ev = "close"

(***************************************************************************)
(* 9. What the code does where the claims fail                             *)
(***************************************************************************)
\* An AT+CMGD for a record is written only after requests.post returned for
\* it, whatever the status of the answer; none is written when it raised.
DeleteAfterPostReturned ==
  \A j \in Records :
    /\ \A k \in DeletesOf(j) :
         \E p \in PostsOf(j) : p < k /\ log[p].result \in {"ok", "http_error"}
    /\ (\E p \in PostsOf(j) : log[p].result = "exception") => DeletesOf(j) = {}

\* With several well-formed records, a record whose requests.post raised has
\* no delete and a warning, and every other record is forwarded and has its
\* own delete or the warning of its failed delete.
OnlyThatRecordWhenPostRaises ==
  (/\ pc # "msgs" /\ ListedSim /\ Len(listed.sim) >= 2
   /\ \A j \in DOMAIN listed.sim : listed.sim[j] = "full")
    => \A j \in Records :
         /\ PostsOf(j) # {}
         /\ \A p \in PostsOf(j) :
              IF log[p].result = "exception"
              THEN DeletesOf(j) = {} /\ WarningsOf(j) # {}
              ELSE \/ \E k \in DeletesOf(j) : log[k].bytes = cmd_CMGD(SlotText(j))
                   \/ WarningsOf(j) # {}

\* The text sent for the plain-text message Hello keeps the quotes of the
\* header field and the line terminator of the body line.
TextKeepsQuotesAndTerminator ==
  ListedSim =>
    \A j \in DOMAIN listed.sim :
      (listed.sim[j] = "full" /\ j % 3 = 1) =>
        \A p \in PostsOf(j) :
          log[p].text = <<"F","r","o","m"," ">> \o QuotedSender \o <<":"," ","\n"," ">>
                          \o <<"H","e","l","l","o","\r","\n">>

\* Every modem of the active set has a number that some entry of the
\* configuration has, the first such entry giving its webhook; a modem whose
\* number no entry has is not in the active set and is never polled; every
\* webhook call goes to the URL of the first entry with the modem's number.
FirstEntryWins ==
  /\ \A k \in 1..Len(modems) :
       /\ EntriesFor(modems[k].number) # {}
       /\ \A e \in EntriesFor(modems[k].number) :
            (\A f \in EntriesFor(modems[k].number) : e <= f) =>
              modems[k].webhook = config_numbers[e].webhook
  /\ \A i \in Unlisted : i \notin Active
  /\ \A i \in Interfaces \ Active : calls.list[i] = 0
  /\ \A k \in Steps :
       log[k].ev = "post" =>
         \E m \in 1..Len(modems) :
           modems[m].interface = log[k].iface /\ log[k].url = modems[m].webhook

\* open() returns exactly when the batch read after AT has a second line and
\* that line holds OK; it closes the handle before failing exactly when the
\* batch has a second line.
OpenTestsSecondLine ==
  opened.tried =>
    /\ opened.exc = "none" <=>
         (Len(opened.lines) >= 2 /\ answer_has_OK(<<opened.lines[2]>>))
    /\ opened.exc # "none" =>
         (opened.ser = "closed" <=> Len(opened.lines) >= 2)

\* Nothing is done twice in a run, and there are never more AT+CMGD commands
\* than webhook calls from which requests.post returned.
NoRetryOfReturnedPosts ==
  /\ \A i \in Interfaces : calls.ident[i] <= 1 /\ calls.list[i] <= 1
  /\ \A j \in Records : Cardinality(PostsOf(j)) <= 1 /\ Cardinality(DeletesOf(j)) <= 1
  /\ Cardinality(AllDeletes)
       <= Cardinality({ k \in Steps : log[k].ev = "post" /\ log[k].result # "exception" })

=============================================================================
